---- MODULE Spec2Model ----
(***************************************************************************)
(* Model of montage (src/main.py).                                         *)
(* Spec: VideoDecision, SelectionState and interactive_video_selection,   *)
(* with the mpv player process and its IPC socket as the environment.     *)
(* SpecProbe: the encoder capability prober (_test_encoder,               *)
(* detect_best_encoder, _test_gpu_availability) and its cache.            *)
(* SpecCompile: compile_movie, its filter graph and its subprocesses.     *)
(***************************************************************************)
EXTENDS Integers, Sequences, FiniteSets, TLC

\* ---------------------------------------------------------------- bounds
MaxVideos == 2
MaxProbeCalls == 3
MaxClips == 3
MaxLibrary == 1

\* ------------------------------------------------------------- constants
NoPath == 0
RotationStep == 90
FullTurn == 360
TARGET_WIDTH == 1920
TARGET_HEIGHT == 1080
TARGET_FPS == 30
TRANSITION_DURATION == 1
\* durations and offsets are counted in milliseconds, the precision that the
\* offset keeps when it is written into the filter graph
MsPerSecond == 1000

\* capture dates of the inputs: two values give both orders and a tie
Dates == {1, 2}

DecisionType == {"keep", "skip", "pending"}
Choices == {"Keep", "Skip", "Rotate 90", "Undo", "Quit", "None"}

\* ---------------------------------------------------------------- inputs
\* A PhotoInfo as far as the selection reads it: uuid, ismissing, path, date.
\* The path of a local video is distinct per video; NoPath is Python's None.
MakeVideo(i, attrs) ==
    [uuid |-> i, ismissing |-> attrs[1],
     path |-> IF attrs[2] THEN i ELSE NoPath, date |-> attrs[3]]

VideoLists ==
    UNION { { [i \in 1..n |-> MakeVideo(i, f[i])] :
                f \in [1..n -> BOOLEAN \X BOOLEAN \X Dates] } :
            n \in 0..MaxVideos }

VARIABLES
    videos,          \* argument of interactive_video_selection
    mpv_available,   \* shutil.which("mpv") is not None
    pc,              \* position in interactive_video_selection
    icloud_only,     \* local list icloud_only
    decisions,       \* state.decisions
    current_index,   \* state.current_index (0-based, as in the code)
    should_quit,     \* state.should_quit
    choice,          \* local variable choice of the loop
    mpv_process,     \* "None" | "running" | "exited" | "reaped"
    socket_exists,   \* os.path.exists(MPV_SOCKET_PATH)
    sent,            \* _send_mpv_command calls made by the last handler
    exc,             \* exception raised in the try block: "none" |
                     \* "KeyboardInterrupt" (caught) | "error" (propagates)
    kept,            \* returned list
    rotation_map,    \* returned dict uuid -> rotation
    asked,           \* number of "Include N unreviewed videos?" prompts shown
    streak,          \* rotate choices answered in a row on the current item
    streakBase,      \* rotation of the current item before that run
    include_pending, \* answer to "Include N unreviewed videos?"
    encoder_cache,   \* _encoder_cache
    produced,        \* prober entry points that have returned a result
    probe_calls,     \* calls of the prober's entry points so far
    last_probe,      \* the last call of an entry point: what it ran and gave
    playlist,        \* playlist["videos"] of the file at playlist_path
    encoding,        \* argument encoding of compile_movie
    cpc,             \* position in compile_movie
    enc,             \* locals encoder, enc_settings, quality_tier
    filter_parts,    \* local list filter_parts
    cmd,             \* local list cmd
    spawned,         \* subprocesses started during the call, in order
    process,         \* the encoding subprocess
    cresult,         \* what compile_movie returned
    mode,            \* "default" | "recompile" (args.recompile given)
    mpc,             \* position in main
    main_videos,     \* local variable videos of main
    log,             \* steps of main done so far, each with its result
    cancel_step,     \* step at which the user cancelled, or "none"
    exit_code,       \* "running" | "0" | "1"
    exported,        \* uuids in the map returned by export_videos
    playlist_file,   \* playlist.json: "absent" | "original" | "written"
    old_outputs,     \* number of *.mp4 files in the project directory
    compile_calls,   \* calls of compile_movie made by main
    lib_call,        \* a direct call of a library function: name, arguments
    lib_ret          \* what that call returned

vars == <<videos, mpv_available, pc, icloud_only, decisions, current_index,
          should_quit, choice, mpv_process, socket_exists, sent, exc, kept,
          rotation_map, asked, streak, streakBase, include_pending>>

proberVars == <<encoder_cache, produced, probe_calls, last_probe>>

\* what interactive_video_selection never touches
compileVars == <<playlist, encoding, cpc, enc, filter_parts, cmd, spawned,
                 process, cresult>>

mainVars == <<mode, mpc, main_videos, log, cancel_step, exit_code, exported,
              playlist_file, old_outputs, compile_calls>>

libVars == <<lib_call, lib_ret>>

movieVars == <<proberVars, compileVars, mainVars, libVars>>

\* ------------------------------------------------------- SelectionState
total_count == Len(decisions)

current_video == decisions[current_index + 1]

CountDecision(ds, d) == Cardinality({i \in 1..Len(ds) : ds[i].decision = d})

kept_count == CountDecision(decisions, "keep")

skipped_count == CountDecision(decisions, "skip")

has_next_Never == FALSE

has_next == current_index < Len(decisions) - 1

has_previous_Always == TRUE

has_previous == current_index > 0

VideoDecision(v) == [video |-> v, decision |-> "pending", rotation |-> 0]

\* ------------------------------------------------------------ helpers
IsCloudOnly_MissingOnly(v) == v.ismissing

IsCloudOnly(v) == v.ismissing \/ v.path = NoPath

RECURSIVE Filter(_, _)
Filter(s, keepCloud) ==
    IF s = <<>> THEN <<>>
    ELSE IF IsCloudOnly(Head(s)) = keepCloud
         THEN <<Head(s)>> \o Filter(Tail(s), keepCloud)
         ELSE Filter(Tail(s), keepCloud)

\* sorted(playable_videos, key=lambda x: x.date): stable, ascending
RECURSIVE InsertByDate(_, _)
InsertByDate(s, v) ==
    IF s = <<>> THEN <<v>>
    ELSE IF Head(s).date <= v.date
         THEN <<Head(s)>> \o InsertByDate(Tail(s), v)
         ELSE <<v>> \o s

RECURSIVE SortedByDate(_)
SortedByDate(s) ==
    IF s = <<>> THEN <<>>
    ELSE InsertByDate(SortedByDate(SubSeq(s, 1, Len(s) - 1)), s[Len(s)])

RotateValue_NoWrap(r) == r + RotationStep

RotateValue(r) == (r + RotationStep) % FullTurn

RECURSIVE VideosWith(_, _)
VideosWith(ds, d) ==
    IF ds = <<>> THEN <<>>
    ELSE IF Head(ds).decision = d
         THEN <<Head(ds).video>> \o VideosWith(Tail(ds), d)
         ELSE VideosWith(Tail(ds), d)

RotationMapOf_AnyDecision(ds) ==
    LET keys == {i \in 1..Len(ds) : ds[i].rotation # 0}
    IN  [u \in {ds[i].video.uuid : i \in keys} |->
            ds[CHOOSE i \in keys : ds[i].video.uuid = u].rotation ]

RotationMapOf(ds) ==
    LET keys == {i \in 1..Len(ds) : ds[i].decision = "keep" /\ ds[i].rotation # 0}
    IN  [u \in {ds[i].video.uuid : i \in keys} |->
            ds[CHOOSE i \in keys : ds[i].video.uuid = u].rotation ]

EmptyMap == [u \in {} |-> 0]

\* ------------------------------------------------- encoder prober
\* Ways one trial encode (subprocess.run of ffmpeg, then the look at the
\* output file) can end.
TrialOutcomes ==
    {"ok",            \* exit status 0, output file exists with size > 0
     "no_output",     \* exit status 0, no output file
     "empty_output",  \* exit status 0, output file of size 0
     "nonzero_exit",  \* CalledProcessError
     "timeout",       \* TimeoutExpired
     "not_found",     \* FileNotFoundError: no ffmpeg binary
     "os_error"}      \* any other exception of subprocess.run (PermissionError, ...)

\* _test_encoder: "True", "False", or "raised" when the exception is not caught
TestEncoder(outcome) ==
    CASE outcome = "ok" -> "True"
      [] outcome \in {"no_output", "empty_output"} -> "False"
      [] outcome \in {"nonzero_exit", "timeout", "not_found"} -> "False"
      [] OTHER -> "raised"

HwEncoders_H264First == <<"h264_videotoolbox", "hevc_videotoolbox">>

HwEncoders == <<"hevc_videotoolbox", "h264_videotoolbox">>

\* _get_encoder_settings
EncoderSettings(encoder) ==
    IF encoder = "hevc_videotoolbox" \/ encoder = "h264_videotoolbox"
    THEN [quality_flag |-> "-q:v",
          quality_values |-> [high |-> "50", balanced |-> "60", fast |-> "70"],
          extra_args |-> <<"-allow_sw", "1">>,
          pix_fmt |-> "yuv420p"]
    ELSE [quality_flag |-> "-crf",
          quality_values |-> [high |-> "20", balanced |-> "22", fast |-> "24"],
          presets |-> [high |-> "slow", balanced |-> "medium", fast |-> "fast"],
          extra_args |-> <<>>,
          pix_fmt |-> "yuv420p10le"]

\* the trials of one pass over the hardware encoders, given how each trial
\* would end: the pass stops at the first trial that passes or raises
RECURSIVE RunTrials(_, _)
RunTrials(encoders, outcomes) ==
    IF encoders = <<>> THEN <<>>
    ELSE LET trial == [encoder |-> Head(encoders), outcome |-> Head(outcomes),
                       result |-> TestEncoder(Head(outcomes))]
         IN  IF trial.result = "False"
             THEN <<trial>> \o RunTrials(Tail(encoders), Tail(outcomes))
             ELSE <<trial>>

TestedOf(trials) == [i \in 1..Len(trials) |-> trials[i].encoder]

Codecs == {"hevc", "h264"}

CacheKey(codec) == <<"darwin", codec>>

CachePut(cache, key, value) ==
    [k \in DOMAIN cache \cup {key} |-> IF k = key THEN value ELSE cache[k]]

EmptyCache == [k \in {} |-> <<>>]

\* detect_best_encoder(codec) on a given cache
DetectBestEncoder(cache, codec, outcomes) ==
    IF CacheKey(codec) \in DOMAIN cache
    THEN [status |-> "returned", value |-> cache[CacheKey(codec)],
          trials |-> <<>>, cache |-> cache]
    ELSE LET trials == RunTrials(HwEncoders, outcomes)
             last   == trials[Len(trials)]
             result == IF last.result = "True"
                       THEN <<last.encoder, EncoderSettings(last.encoder), TestedOf(trials)>>
                       ELSE <<"libx265", EncoderSettings("libx265"), TestedOf(trials)>>
         IN  IF last.result = "raised"
             THEN [status |-> "raised", value |-> <<>>,
                   trials |-> trials, cache |-> cache]
             ELSE [status |-> "returned", value |-> result,
                   trials |-> trials, cache |-> CachePut(cache, CacheKey(codec), result)]

\* _test_gpu_availability()
TestGpuAvailability(outcomes) ==
    LET trials == RunTrials(HwEncoders, outcomes)
        last   == trials[Len(trials)]
    IN  IF last.result = "raised"
        THEN [status |-> "raised", value |-> <<>>, trials |-> trials]
        ELSE IF last.result = "True"
        THEN [status |-> "returned",
              value |-> <<TRUE, last.encoder, EncoderSettings(last.encoder)>>,
              trials |-> trials]
        ELSE [status |-> "returned", value |-> <<FALSE, "None", "None">>,
              trials |-> trials]

NoProbe ==
    [entry |-> "none", codec |-> "none", repeat |-> FALSE, status |-> "none",
     value |-> <<>>, trials |-> <<>>]

ProberIdle ==
    /\ encoder_cache = EmptyCache
    /\ produced = {}
    /\ probe_calls = 0
    /\ last_probe = NoProbe


\* ------------------------------------------------- compile_movie: inputs
\* A playlist entry as far as compile_movie reads it. duration is in
\* milliseconds; create_playlist writes 0 for a video without exif data.
Clip(duration, is_portrait, rotation) ==
    [duration |-> duration, is_portrait |-> is_portrait, rotation |-> rotation]

Clips ==
    {Clip(3000, FALSE, 0), Clip(1000, FALSE, 90),
     Clip(2500, TRUE, 270), Clip(0, TRUE, 180)}

RECURSIVE SeqsUpTo(_, _)
SeqsUpTo(S, n) ==
    IF n = 0 THEN {<<>>}
    ELSE LET shorter == SeqsUpTo(S, n - 1)
         IN  shorter \cup {Append(q, x) : q \in {r \in shorter : Len(r) = n - 1}, x \in S}

Playlists == SeqsUpTo(Clips, MaxClips)

\* encoding: None, or the EncodingSelection that prompt_quality_selection built
EncodingChoices ==
    {<<"None", "None", "None">>,
     <<"gpu", "hevc_videotoolbox", "balanced">>,
     <<"cpu", "libx265", "high">>}

EncodingSelection(c) ==
    IF c[1] = "None"
    THEN [encoder_type |-> "None"]
    ELSE [encoder_type |-> c[1], encoder_name |-> c[2], quality_tier |-> c[3],
          encoder_settings |-> EncoderSettings(c[2])]

\* _encoder_cache when compile_movie is called: nothing detected yet, or the
\* result of an earlier detect_best_encoder()
PriorCacheKinds == {"empty", "gpu", "cpu"}

PriorCache(kind) ==
    CASE kind = "gpu" -> DetectBestEncoder(EmptyCache, "hevc", <<"ok", "ok">>).cache
      [] kind = "cpu" ->
            DetectBestEncoder(EmptyCache, "hevc", <<"nonzero_exit", "nonzero_exit">>).cache
      [] OTHER -> EmptyCache

\* ------------------------------------------- compile_movie: filter graph
\* A stream label is the text between the brackets, kept as its pieces.
Digits == <<"0", "1", "2", "3", "4", "5", "6", "7", "8", "9">>

\* f"{i}" for an index of one digit
Str(i) == Digits[i + 1]

InV(i) == <<Str(i), ":v">>
InA(i) == <<Str(i), ":a">>
Orig(i) == <<Str(i), "orig">>
\* the second output of split given the label of the first
Copy_AsOrig(i) == <<Str(i), "orig">>

Copy(i) == <<Str(i), "copy">>
Blur(i) == <<Str(i), "blur">>
V(i) == <<"v", Str(i)>>
A(i) == <<"a", Str(i)>>
VT(i) == <<"vt", Str(i)>>
AT(i) == <<"at", Str(i)>>
VOut == <<"vout">>
AOut == <<"aout">>

\* one filter with its arguments, and one chain: input labels, filters
\* separated by commas, output labels
Op(name, args) == [name |-> name, args |-> args]

Chain(ins, ops, outs) == [ins |-> ins, ops |-> ops, outs |-> outs]

NoArgs == <<>>

rotate_part(rotation) ==
    CASE rotation = 90 -> <<Op("transpose", <<1>>)>>
      [] rotation = 180 -> <<Op("transpose", <<1>>), Op("transpose", <<1>>)>>
      [] rotation = 270 -> <<Op("transpose", <<2>>)>>
      [] OTHER -> <<>>

Normalize ==
    <<Op("setsar", <<1>>), Op("fps", <<TARGET_FPS>>), Op("settb", <<"AVTB">>)>>

\* a fragment of filter_parts is a sequence of chains (joined by ";")
build_portrait_filter(input_idx, rotation) ==
    <<Chain(<<InV(input_idx)>>,
            rotate_part(rotation) \o <<Op("split", NoArgs)>>,
            <<Orig(input_idx), Copy(input_idx)>>),
      Chain(<<Copy(input_idx)>>,
            <<Op("scale", [w |-> TARGET_WIDTH, h |-> TARGET_HEIGHT,
                           force_original_aspect_ratio |-> "increase"]),
              Op("crop", <<TARGET_WIDTH, TARGET_HEIGHT>>),
              Op("gblur", [sigma |-> 50])>>,
            <<Blur(input_idx)>>),
      Chain(<<Blur(input_idx), Orig(input_idx)>>,
            <<Op("overlay", <<"(W-w)/2", "(H-h)/2">>)>> \o Normalize,
            <<V(input_idx)>>)>>

build_landscape_filter(input_idx, rotation) ==
    <<Chain(<<InV(input_idx)>>,
            rotate_part(rotation) \o
            <<Op("scale", [w |-> TARGET_WIDTH, h |-> TARGET_HEIGHT,
                           force_original_aspect_ratio |-> "decrease"]),
              Op("pad", [w |-> TARGET_WIDTH, h |-> TARGET_HEIGHT,
                         x |-> "(ow-iw)/2", y |-> "(oh-ih)/2", color |-> "black"])>>
            \o Normalize,
            <<V(input_idx)>>)>>

AudioNormalize(i) ==
    <<Chain(<<InA(i)>>,
            <<Op("aresample", <<48000>>),
              Op("aformat", [sample_fmts |-> "fltp", channel_layouts |-> "stereo"])>>,
            <<A(i)>>)>>

\* the first loop of compile_movie, from index i on (i is 0-based)
RECURSIVE NormalizeParts(_, _)
NormalizeParts(vs, i) ==
    IF i >= Len(vs) THEN <<>>
    ELSE LET v == vs[i + 1]
         IN  <<IF v.is_portrait
               THEN build_portrait_filter(i, v.rotation)
               ELSE build_landscape_filter(i, v.rotation),
               AudioNormalize(i)>>
             \o NormalizeParts(vs, i + 1)

Abs(n) == IF n < 0 THEN -n ELSE n

\* f"{offset:.3f}": sign, whole seconds, three decimals
FormatOffset(ms) ==
    [neg |-> ms < 0, secs |-> Abs(ms) \div MsPerSecond,
     millis |-> Abs(ms) % MsPerSecond]

\* the number that ffmpeg reads back from the formatted offset
ParseOffset(f) ==
    (IF f.neg THEN -1 ELSE 1) * (f.secs * MsPerSecond + f.millis)

\* offset of transition i: reads the duration of video i + 2 where the code
\* reads that of video i
Offset_NextVideo(vs, i, cumulative_duration) ==
    cumulative_duration + vs[i + 2].duration - TRANSITION_DURATION * MsPerSecond

\* offset = cumulative_duration + videos[i]["duration"] - TRANSITION_DURATION
Offset(vs, i, cumulative_duration) ==
    cumulative_duration + vs[i + 1].duration - TRANSITION_DURATION * MsPerSecond

\* first input of a transition that is never the previous chain output
In1_Unchained(i, first, temp) == first

\* v_in1 / a_in1
In1(i, first, temp) == IF i = 0 THEN first ELSE temp

\* v_out / a_out
Out(n, i, final, temp) == IF i = n - 2 THEN final ELSE temp

\* the second loop of compile_movie, from transition i on
RECURSIVE XfadeParts(_, _, _)
XfadeParts(vs, i, cumulative_duration) ==
    IF i > Len(vs) - 2 THEN <<>>
    ELSE LET v_in1 == In1(i, V(i), VT(i - 1))
             a_in1 == In1(i, A(i), AT(i - 1))
             v_in2 == V(i + 1)
             a_in2 == A(i + 1)
             offset == Offset(vs, i, cumulative_duration)
             v_out == Out(Len(vs), i, VOut, VT(i))
             a_out == Out(Len(vs), i, AOut, AT(i))
         IN  <<<<Chain(<<v_in1, v_in2>>,
                       <<Op("xfade", [transition |-> "fade",
                                      duration |-> TRANSITION_DURATION,
                                      offset |-> FormatOffset(offset)])>>,
                       <<v_out>>)>>,
               <<Chain(<<a_in1, a_in2>>,
                       <<Op("acrossfade", [d |-> TRANSITION_DURATION,
                                           c1 |-> "tri", c2 |-> "tri"])>>,
                       <<a_out>>)>>>>
             \o XfadeParts(vs, i + 1, offset)

\* filter_parts as compile_movie leaves it for a non-empty playlist
FilterParts(vs) ==
    NormalizeParts(vs, 0) \o
    (IF Len(vs) = 1
     THEN <<<<Chain(<<V(0)>>, <<Op("null", NoArgs)>>, <<VOut>>)>>,
            <<Chain(<<A(0)>>, <<Op("anull", NoArgs)>>, <<AOut>>)>>>>
     ELSE XfadeParts(vs, 0, 0))

\* ";".join(filter_parts): the chains of the graph in order
RECURSIVE FilterComplex(_)
FilterComplex(parts) ==
    IF parts = <<>> THEN <<>> ELSE Head(parts) \o FilterComplex(Tail(parts))

\* the ffmpeg command of the encoding
BuildCmd(vs, parts, e) ==
    [program |-> "ffmpeg",
     inputs |-> [i \in 1..Len(vs) |-> i - 1],
     filter_complex |-> FilterComplex(parts),
     map |-> <<VOut, AOut>>,
     codec |-> e.encoder,
     pix_fmt |-> e.enc_settings.pix_fmt,
     quality |-> <<e.enc_settings.quality_flag,
                   e.enc_settings.quality_values[e.quality_tier]>>,
     extra_args |-> e.enc_settings.extra_args,
     preset |-> IF e.encoder = "libx265" /\ "presets" \in DOMAIN e.enc_settings
                THEN <<"-preset", e.enc_settings.presets[e.quality_tier]>> \o
                     (IF e.quality_tier = "high"
                      THEN <<"-tune", "fastdecode", "-x265-params", "aq-mode=3">>
                      ELSE <<>>)
                ELSE <<>>,
     tag |-> "hvc1", audio |-> <<"aac", "192k">>, movflags |-> "+faststart"]

\* the trial encodes of a probe that did start an ffmpeg process
TrialRan(trial) ==
    trial.outcome \in {"ok", "no_output", "empty_output", "nonzero_exit", "timeout"}

TrialProcess(trial) == [program |-> "ffmpeg", purpose |-> "trial", codec |-> trial.encoder]

RECURSIVE TrialProcesses(_)
TrialProcesses(trials) ==
    IF trials = <<>> THEN <<>>
    ELSE (IF TrialRan(Head(trials)) THEN <<TrialProcess(Head(trials))>> ELSE <<>>)
         \o TrialProcesses(Tail(trials))

NoEnc == [encoder |-> "unset"]
NoCmd == [program |-> "unset"]
NoProcess == [state |-> "None", returncode |-> "None"]

CompileIdle ==
    /\ playlist = <<>>
    /\ encoding = EncodingSelection(<<"None", "None", "None">>)
    /\ cpc = "idle"
    /\ enc = NoEnc
    /\ filter_parts = <<>>
    /\ cmd = NoCmd
    /\ spawned = <<>>
    /\ process = NoProcess
    /\ cresult = "unset"

\* main is not running / no direct call was made
MainIdle ==
    /\ mode = "default"
    /\ mpc = "idle"
    /\ main_videos = <<>>
    /\ log = <<>>
    /\ cancel_step = "none"
    /\ exit_code = "running"
    /\ exported = {}
    /\ playlist_file = "absent"
    /\ old_outputs = 0
    /\ compile_calls = 0

NoCall == [fn |-> "none"]

LibIdle ==
    /\ lib_call = NoCall
    /\ lib_ret = <<>>

\* ------------------------------------------------------------------ Init
Init ==
    /\ videos \in VideoLists
    /\ mpv_available \in BOOLEAN
    /\ socket_exists \in BOOLEAN
    /\ pc = "start"
    /\ icloud_only = <<>>
    /\ decisions = <<>>
    /\ current_index = 0
    /\ should_quit = FALSE
    /\ choice = "unset"
    /\ mpv_process = "None"
    /\ sent = <<>>
    /\ exc = "none"
    /\ kept = <<>>
    /\ rotation_map = EmptyMap
    /\ asked = 0
    /\ streak = 0
    /\ streakBase = 0
    /\ include_pending = "unset"
    /\ ProberIdle
    /\ CompileIdle
    /\ MainIdle
    /\ LibIdle

\* ------------------------------------------------- _send_mpv_command
\* Results of one call: "True" (sent), "False" (ConnectionRefusedError or
\* FileNotFoundError, caught), "raised" (any other exception, not caught).
SendResults ==
    IF socket_exists
    THEN (IF mpv_process = "running" THEN {"True"} ELSE {"False"}) \cup {"raised"}
    ELSE {"False"}

LoadFile(path) == <<"loadfile", ToString(path)>>

SetRotate_WrongProperty(rotation) == <<"set_property", "rotate", ToString(rotation)>>

SetRotate(rotation) == <<"set_property", "video-rotate", ToString(rotation)>>

Call(command, result) == [command |-> command, result |-> result]

LoopTest_IgnoresQuit(sq, idx) == idx < total_count

\* while not state.should_quit and state.current_index < state.total_count
LoopTest(sq, idx) == (~sq) /\ idx < total_count

\* Position after a handler: the loop test, or the unwinding of an exception.
AfterHandler(sq, idx, raised) ==
    IF raised THEN "finally"
    ELSE IF LoopTest(sq, idx) THEN "prompt" ELSE "finally"

\* ----------------------------------------------------- function entry
\* the fallback returning only the videos that have a local file
MpvUnavailable_PlayableOnly ==
    /\ pc = "start"
    /\ ~mpv_available
    /\ kept' = Filter(videos, FALSE)
    /\ rotation_map' = EmptyMap
    /\ pc' = "returned"
    /\ UNCHANGED <<videos, mpv_available, icloud_only, decisions, current_index,
                   should_quit, choice, mpv_process, socket_exists, sent, exc,
                   asked, streak, streakBase, include_pending>>
    /\ UNCHANGED movieVars

MpvUnavailable ==
    /\ pc = "start"
    /\ ~mpv_available
    /\ kept' = videos
    /\ rotation_map' = EmptyMap
    /\ pc' = "returned"
    /\ UNCHANGED <<videos, mpv_available, icloud_only, decisions, current_index,
                   should_quit, choice, mpv_process, socket_exists, sent, exc,
                   asked, streak, streakBase, include_pending>>
    /\ UNCHANGED movieVars

NoPlayable ==
    /\ pc = "start"
    /\ mpv_available
    /\ Filter(videos, FALSE) = <<>>
    /\ icloud_only' = Filter(videos, TRUE)
    /\ kept' = videos
    /\ rotation_map' = EmptyMap
    /\ pc' = "returned"
    /\ UNCHANGED <<videos, mpv_available, decisions, current_index,
                   should_quit, choice, mpv_process, socket_exists, sent, exc,
                   asked, streak, streakBase, include_pending>>
    /\ UNCHANGED movieVars

BeginSession ==
    /\ pc = "start"
    /\ mpv_available
    /\ Filter(videos, FALSE) # <<>>
    /\ icloud_only' = Filter(videos, TRUE)
    /\ decisions' = [i \in 1..Len(Filter(videos, FALSE)) |->
                        VideoDecision(SortedByDate(Filter(videos, FALSE))[i])]
    /\ current_index' = 0
    /\ should_quit' = FALSE
    /\ socket_exists' = FALSE
    /\ pc' = "launch"
    /\ UNCHANGED <<videos, mpv_available, choice, mpv_process, sent, exc, kept,
                   rotation_map, asked, streak, streakBase, include_pending>>
    /\ UNCHANGED movieVars

\* subprocess.Popen([... "mpv" ...]) and time.sleep(0.3)
Launch ==
    /\ pc = "launch"
    /\ mpv_process' = "running"
    /\ pc' = AfterHandler(should_quit, current_index, FALSE)
    /\ UNCHANGED <<videos, mpv_available, icloud_only, decisions, current_index,
                   should_quit, choice, socket_exists, sent, exc, kept,
                   rotation_map, asked, streak, streakBase, include_pending>>
    /\ UNCHANGED movieVars

\* Popen raises (the binary vanished, fork failed): mpv_process stays None
LaunchFails ==
    /\ pc = "launch"
    /\ exc' = "error"
    /\ pc' = "finally"
    /\ UNCHANGED <<videos, mpv_available, icloud_only, decisions, current_index,
                   should_quit, choice, mpv_process, socket_exists, sent, kept,
                   rotation_map, asked, streak, streakBase, include_pending>>
    /\ UNCHANGED movieVars

\* ------------------------------------------------------- the player
MpvCreatesSocket ==
    /\ mpv_process = "running"
    /\ ~socket_exists
    /\ socket_exists' = TRUE
    /\ UNCHANGED <<videos, mpv_available, pc, icloud_only, decisions,
                   current_index, should_quit, choice, mpv_process, sent, exc,
                   kept, rotation_map, asked, streak, streakBase, include_pending>>
    /\ UNCHANGED movieVars

\* the player window is closed or the player crashes; it may leave its socket
MpvExits ==
    /\ mpv_process = "running"
    /\ mpv_process' = "exited"
    /\ socket_exists' \in {socket_exists, FALSE}
    /\ UNCHANGED <<videos, mpv_available, pc, icloud_only, decisions,
                   current_index, should_quit, choice, sent, exc, kept,
                   rotation_map, asked, streak, streakBase, include_pending>>
    /\ UNCHANGED movieVars

\* ------------------------------------------------ the selection loop
NextIndex(i) == i + 1

PrevIndex(i) == i - 1

PathAt(ds, idx) == ds[idx + 1].video.path

SetDecision(ds, idx, d) == [ds EXCEPT ![idx + 1].decision = d]

SetRotation(ds, idx, r) == [ds EXCEPT ![idx + 1].rotation = r]

UndoDecisions_OnlyCurrent(ds, idx) == SetDecision(ds, idx, "pending")

\* both assignments of the undo branch
UndoDecisions(ds, idx) ==
    SetDecision(SetDecision(ds, idx, "pending"), PrevIndex(idx), "pending")

RaisedBy(result) == IF result = "raised" THEN "error" ELSE "none"

\* choice == "Keep" / choice == "Skip"
Decide(ch, d) ==
    /\ pc = "prompt"
    /\ choice' = ch
    /\ decisions' = SetDecision(decisions, current_index, d)
    /\ IF has_next
       THEN \E result \in SendResults :
              /\ current_index' = NextIndex(current_index)
              /\ sent' = <<Call(LoadFile(PathAt(decisions', current_index')), result)>>
              /\ exc' = RaisedBy(result)
              /\ pc' = AfterHandler(should_quit, current_index', result = "raised")
       ELSE /\ pc' = "finally"
            /\ sent' = <<>>
            /\ UNCHANGED <<current_index, exc>>
    /\ streak' = 0
    /\ streakBase' = 0
    /\ UNCHANGED <<videos, mpv_available, icloud_only, should_quit, mpv_process,
                   socket_exists, kept, rotation_map, asked, include_pending>>
    /\ UNCHANGED movieVars

Keep_AsSkip == Decide("Keep", "skip")

Keep == Decide("Keep", "keep")

Skip == Decide("Skip", "skip")

\* choice == "Rotate 90°"
Rotate ==
    /\ pc = "prompt"
    /\ choice' = "Rotate 90"
    /\ decisions' = SetRotation(decisions, current_index,
                                RotateValue(current_video.rotation))
    /\ \E result \in SendResults :
          /\ sent' = <<Call(SetRotate(decisions'[current_index + 1].rotation), result)>>
          /\ exc' = RaisedBy(result)
          /\ pc' = AfterHandler(should_quit, current_index, result = "raised")
    /\ streak' = IF streak = 4 THEN 1 ELSE streak + 1
    /\ streakBase' = IF streak \in {0, 4} THEN current_video.rotation ELSE streakBase
    /\ UNCHANGED <<videos, mpv_available, icloud_only, current_index, should_quit,
                   mpv_process, socket_exists, kept, rotation_map, asked,
                   include_pending>>
    /\ UNCHANGED movieVars

\* choice == "Undo"
Undo ==
    /\ pc = "prompt"
    /\ choice' = "Undo"
    /\ IF has_previous
       THEN \E result \in SendResults :
              /\ current_index' = PrevIndex(current_index)
              /\ decisions' = UndoDecisions(decisions, current_index)
              /\ sent' = <<Call(LoadFile(PathAt(decisions', current_index')), result)>>
              /\ exc' = RaisedBy(result)
              /\ pc' = AfterHandler(should_quit, current_index', result = "raised")
       ELSE /\ sent' = <<>>
            /\ pc' = AfterHandler(should_quit, current_index, FALSE)
            /\ UNCHANGED <<decisions, current_index, exc>>
    /\ streak' = 0
    /\ streakBase' = 0
    /\ UNCHANGED <<videos, mpv_available, icloud_only, should_quit, mpv_process,
                   socket_exists, kept, rotation_map, asked, include_pending>>
    /\ UNCHANGED movieVars

\* choice == "Quit" or choice is None (questionary returns None on Ctrl-C)
Quit ==
    /\ pc = "prompt"
    /\ choice' \in {"Quit", "None"}
    /\ should_quit' = TRUE
    /\ sent' = <<>>
    /\ pc' = AfterHandler(should_quit', current_index, FALSE)
    /\ streak' = 0
    /\ streakBase' = 0
    /\ UNCHANGED <<videos, mpv_available, icloud_only, decisions, current_index,
                   mpv_process, socket_exists, exc, kept, rotation_map, asked,
                   include_pending>>
    /\ UNCHANGED movieVars

\* except KeyboardInterrupt: raised outside the prompt, anywhere in the try
Interrupt ==
    /\ pc \in {"launch", "prompt"}
    /\ should_quit' = TRUE
    /\ exc' = "KeyboardInterrupt"
    /\ sent' = <<>>
    /\ pc' = "finally"
    /\ streak' = 0
    /\ streakBase' = 0
    /\ UNCHANGED <<videos, mpv_available, icloud_only, decisions, current_index,
                   choice, mpv_process, socket_exists, kept, rotation_map, asked,
                   include_pending>>
    /\ UNCHANGED movieVars

\* any other exception of the loop body (display, prompt library)
RaiseInLoop ==
    /\ pc = "prompt"
    /\ exc' = "error"
    /\ sent' = <<>>
    /\ pc' = "finally"
    /\ streak' = 0
    /\ streakBase' = 0
    /\ UNCHANGED <<videos, mpv_available, icloud_only, decisions, current_index,
                   should_quit, choice, mpv_process, socket_exists, kept,
                   rotation_map, asked, include_pending>>
    /\ UNCHANGED movieVars

\* ------------------------------------------------------ after the loop
\* the cleanup written after the try block instead of in its finally clause
Cleanup_NotOnError ==
    /\ pc = "finally"
    /\ mpv_process' = IF mpv_process # "None" /\ exc # "error"
                      THEN "reaped" ELSE mpv_process
    /\ socket_exists' = (socket_exists /\ exc = "error")
    /\ pc' = IF exc = "error" THEN "propagated" ELSE "collect"
    /\ UNCHANGED <<videos, mpv_available, icloud_only, decisions, current_index,
                   should_quit, choice, sent, exc, kept, rotation_map, asked,
                   streak, streakBase, include_pending>>
    /\ UNCHANGED movieVars

\* finally: terminate and wait for the player, unlink the socket
Cleanup ==
    /\ pc = "finally"
    /\ mpv_process' = IF mpv_process # "None" THEN "reaped" ELSE mpv_process
    /\ socket_exists' = FALSE
    /\ pc' = IF exc = "error" THEN "propagated" ELSE "collect"
    /\ UNCHANGED <<videos, mpv_available, icloud_only, decisions, current_index,
                   should_quit, choice, sent, exc, kept, rotation_map, asked,
                   streak, streakBase, include_pending>>
    /\ UNCHANGED movieVars

pending_count == CountDecision(decisions, "pending")

\* the kept list without the iCloud-only videos added back
KeptOf_NoCloud(ds, icloud) == VideosWith(ds, "keep")

KeptOf(ds, icloud) == VideosWith(ds, "keep") \o icloud

\* summary, kept list, rotation map, iCloud-only videos, pending question
Collect ==
    /\ pc = "collect"
    /\ kept' = KeptOf(decisions, icloud_only)
    /\ rotation_map' = RotationMapOf(decisions)
    /\ IF should_quit /\ pending_count > 0
       THEN /\ asked' = asked + 1
            /\ pc' = "confirm"
       ELSE /\ pc' = "returned"
            /\ UNCHANGED asked
    /\ UNCHANGED <<videos, mpv_available, icloud_only, decisions, current_index,
                   should_quit, choice, mpv_process, socket_exists, sent, exc,
                   streak, streakBase, include_pending>>
    /\ UNCHANGED movieVars

\* a cancelled answer taken as the prompt's default
Confirm_CancelIsDefault ==
    /\ pc = "confirm"
    /\ include_pending' \in {"True", "False", "None"}
    /\ kept' = IF include_pending' # "False"
               THEN kept \o VideosWith(decisions, "pending")
               ELSE kept
    /\ pc' = "returned"
    /\ UNCHANGED <<videos, mpv_available, icloud_only, decisions, current_index,
                   should_quit, choice, mpv_process, socket_exists, sent, exc,
                   rotation_map, asked, streak, streakBase>>
    /\ UNCHANGED movieVars

\* questionary.confirm(...).ask(): True, False, or None when cancelled
Confirm ==
    /\ pc = "confirm"
    /\ include_pending' \in {"True", "False", "None"}
    /\ kept' = IF include_pending' = "True"
               THEN kept \o VideosWith(decisions, "pending")
               ELSE kept
    /\ pc' = "returned"
    /\ UNCHANGED <<videos, mpv_available, icloud_only, decisions, current_index,
                   should_quit, choice, mpv_process, socket_exists, sent, exc,
                   rotation_map, asked, streak, streakBase>>
    /\ UNCHANGED movieVars

Next ==
    \/ MpvUnavailable
    \/ NoPlayable
    \/ BeginSession
    \/ Launch
    \/ LaunchFails
    \/ MpvCreatesSocket
    \/ MpvExits
    \/ Keep
    \/ Skip
    \/ Rotate
    \/ Undo
    \/ Quit
    \/ Interrupt
    \/ RaiseInLoop
    \/ Cleanup
    \/ Collect
    \/ Confirm

Spec == Init /\ [][Next]_vars

\* =====================================================================
\* Properties of the selection session
\* =====================================================================

\* C1: at every prompt of the selection loop the cursor is a valid index,
\* 0 <= current_index < number of reviewable items; has_next() holds exactly
\* when an item after the cursor exists and has_previous() exactly when an
\* item before it exists.
C1_CursorInRange ==
    pc = "prompt" =>
        /\ ~should_quit
        /\ 0 <= current_index
        /\ current_index < Len(decisions)
        /\ has_next <=> (current_index + 2 \in DOMAIN decisions)
        /\ has_previous <=> (current_index \in DOMAIN decisions)

\* a prompt on the first of two items, reached again by an undo
C1_Witness ==
    /\ pc = "prompt"
    /\ choice = "Undo"
    /\ Len(sent) = 1
    /\ current_index = 0
    /\ Len(decisions) = 2
    /\ has_next /\ ~has_previous

\* C2: a keep (skip) step marks the item at the cursor keep (skip) and
\* changes nothing else of any item; with a next item the cursor advances by
\* one and exactly one loadfile for the new current item is sent; on the
\* last item the loop ends with the cursor unchanged and nothing sent.
C2_KeepSkip ==
    [][\A d \in {"keep", "skip"} :
        (IF d = "keep" THEN Keep ELSE Skip) =>
          /\ DOMAIN decisions' = DOMAIN decisions
          /\ \A i \in DOMAIN decisions :
                /\ decisions'[i].video = decisions[i].video
                /\ decisions'[i].rotation = decisions[i].rotation
                /\ decisions'[i].decision =
                      IF i = current_index + 1 THEN d ELSE decisions[i].decision
          /\ should_quit' = should_quit
          /\ IF current_index + 2 \in DOMAIN decisions
             THEN /\ current_index' = current_index + 1
                  /\ Len(sent') = 1
                  /\ sent'[1].command =
                        <<"loadfile", ToString(decisions[current_index + 2].video.path)>>
                  /\ sent'[1].result # "raised" => pc' = "prompt"
             ELSE /\ current_index' = current_index
                  /\ sent' = <<>>
                  /\ exc' = exc
                  /\ pc' = "finally"
      ]_vars

\* the last of two items was just kept: the loop ended, the first one was
\* decided by a step that advanced the cursor
C2_Witness ==
    /\ pc = "finally"
    /\ choice = "Keep"
    /\ ~should_quit
    /\ exc = "none"
    /\ sent = <<>>
    /\ Len(decisions) = 2
    /\ current_index = 1
    /\ decisions[1].decision = "skip"
    /\ decisions[2].decision = "keep"

\* C3: an undo step off the first item resets the item at the cursor and
\* the one before it to pending, moves the cursor back by one and sends one
\* loadfile for that previous item; on the first item it changes no
\* decision, no rotation, not the cursor, and sends nothing.
C3_Undo ==
    [][Undo =>
          /\ DOMAIN decisions' = DOMAIN decisions
          /\ \A i \in DOMAIN decisions :
                /\ decisions'[i].video = decisions[i].video
                /\ decisions'[i].rotation = decisions[i].rotation
          /\ should_quit' = should_quit
          /\ IF current_index > 0
             THEN /\ current_index' = current_index - 1
                  /\ \A i \in DOMAIN decisions :
                        decisions'[i].decision =
                           IF i \in {current_index, current_index + 1}
                           THEN "pending" ELSE decisions[i].decision
                  /\ Len(sent') = 1
                  /\ sent'[1].command =
                        <<"loadfile", ToString(decisions[current_index].video.path)>>
                  /\ sent'[1].result # "raised" => pc' = "prompt"
             ELSE /\ decisions' = decisions
                  /\ current_index' = current_index
                  /\ sent' = <<>>
                  /\ exc' = exc
                  /\ pc' = "prompt"
      ]_vars

\* an undo has just moved the cursor back onto a rotated first item
C3_Witness ==
    /\ pc = "prompt"
    /\ choice = "Undo"
    /\ Len(sent) = 1
    /\ sent[1].command[1] = "loadfile"
    /\ current_index = 0
    /\ Len(decisions) = 2
    /\ decisions[1].rotation = 90
    /\ decisions[1].decision = "pending"
    /\ decisions[2].decision = "pending"

\* C4: a rotate step changes only the rotation of the item at the cursor,
\* to (old + 90) mod 360, and sends one set_property video-rotate carrying
\* the new value; cursor, decisions, the other rotations and the quit flag
\* are unchanged and the loop prompts again for the same item.
C4_Rotate ==
    [][Rotate =>
          /\ DOMAIN decisions' = DOMAIN decisions
          /\ \A i \in DOMAIN decisions :
                /\ decisions'[i].video = decisions[i].video
                /\ decisions'[i].decision = decisions[i].decision
                /\ decisions'[i].rotation =
                      IF i = current_index + 1
                      THEN (decisions[i].rotation + 90) % 360
                      ELSE decisions[i].rotation
          /\ current_index' = current_index
          /\ should_quit' = should_quit
          /\ Len(sent') = 1
          /\ sent'[1].command =
                <<"set_property", "video-rotate",
                  ToString((decisions[current_index + 1].rotation + 90) % 360)>>
          /\ sent'[1].result # "raised" => pc' = "prompt"
      ]_vars

\* the second item was rotated from 270 back to 0 and is prompted again
C4_Witness ==
    /\ pc = "prompt"
    /\ choice = "Rotate 90"
    /\ streak = 4
    /\ current_index = 1
    /\ decisions[2].rotation = 0
    /\ decisions[1].rotation = 180
    /\ sent = <<[command |-> <<"set_property", "video-rotate", "0">>, result |-> "True"]>>

\* C5: a quit step (the Quit choice, a cancelled prompt, a keyboard
\* interrupt) sets the quit flag and ends the loop, leaving every decision,
\* every rotation and the cursor unchanged; once the flag is set the loop
\* never prompts again.
C5_Quit ==
    [][/\ (Quit \/ Interrupt) =>
            /\ should_quit'
            /\ pc' = "finally"
            /\ decisions' = decisions
            /\ current_index' = current_index
            /\ sent' = <<>>
       /\ should_quit => pc' # "prompt"
       /\ should_quit => should_quit'
      ]_vars

\* the prompt on the second item was cancelled after a keep and a rotate
C5_Witness ==
    /\ pc = "finally"
    /\ choice = "None"
    /\ should_quit
    /\ exc = "none"
    /\ current_index = 1
    /\ decisions[1].decision = "keep"
    /\ decisions[2].decision = "pending"
    /\ decisions[2].rotation = 90

\* C6: the question whether to include the pending items is asked at most
\* once, and exactly once when the session ended via quit with an item still
\* pending; on acceptance every pending item is in the returned list, on a
\* decline or a cancelled answer none is; if the session ended without quit
\* or nothing is pending the question is never asked.
C6_IncludePending ==
    LET pend == {decisions[i].video :
                    i \in {j \in DOMAIN decisions : decisions[j].decision = "pending"}}
        ret  == {kept[k] : k \in DOMAIN kept}
    IN  /\ asked \in {0, 1}
        /\ pc \notin {"confirm", "returned"} => asked = 0
        /\ pc = "confirm" => asked = 1 /\ include_pending = "unset"
        /\ pc \in {"confirm", "returned"} =>
              (asked = 1 <=> (should_quit /\ pend # {}))
        /\ pc = "returned" =>
              /\ asked = 0 => include_pending = "unset"
              /\ asked = 1 =>
                    /\ include_pending \in {"True", "False", "None"}
                    /\ include_pending = "True" => pend \subseteq ret
                    /\ include_pending # "True" => pend \cap ret = {}

\* a quit on the second item, the question cancelled: the pending second
\* item is left out, the kept first one returned
C6_Witness ==
    /\ pc = "returned"
    /\ asked = 1
    /\ include_pending = "None"
    /\ Len(decisions) = 2
    /\ decisions[1].decision = "keep"
    /\ decisions[2].decision = "pending"
    /\ kept = <<decisions[1].video>>

\* C7: an input video that is cloud-only (ismissing, or no path) never gets
\* a VideoDecision, is never loaded into the player, and is in the returned
\* list however the session ends.
C7_CloudOnly ==
    \A n \in DOMAIN videos :
        (videos[n].ismissing \/ videos[n].path = 0) =>
            /\ \A i \in DOMAIN decisions : decisions[i].video # videos[n]
            /\ \A c \in DOMAIN sent :
                  sent[c].command[1] = "loadfile" =>
                      /\ sent[c].command[2] # "0"
                      /\ videos[n].path # 0 =>
                            sent[c].command[2] # ToString(videos[n].path)
            /\ pc = "returned" => \E k \in DOMAIN kept : kept[k] = videos[n]

\* a session over one local video was quit and the pending video declined:
\* the input's video without a path is the only one returned
C7_Witness ==
    /\ pc = "returned"
    /\ Len(videos) = 2
    /\ ~videos[1].ismissing /\ videos[1].path = 0
    /\ Len(decisions) = 1
    /\ should_quit
    /\ include_pending = "False"
    /\ kept = <<videos[1]>>

\* C8: the returned rotation map holds only values 90, 180, 270; each key
\* is the id of a video whose final decision is keep, which is in the
\* returned list; a kept video with rotation 0 has no entry.
C8_RotationMap ==
    pc = "returned" =>
        /\ \A u \in DOMAIN rotation_map :
              /\ rotation_map[u] \in {90, 180, 270}
              /\ \E i \in DOMAIN decisions :
                    /\ decisions[i].video.uuid = u
                    /\ decisions[i].decision = "keep"
              /\ \E k \in DOMAIN kept : kept[k].uuid = u
        /\ \A i \in DOMAIN decisions :
              (decisions[i].decision = "keep" /\ decisions[i].rotation = 0) =>
                  decisions[i].video.uuid \notin DOMAIN rotation_map

\* returned: a kept unrotated video, a skipped video that was rotated
C8_Witness ==
    /\ pc = "returned"
    /\ Len(decisions) = 2
    /\ decisions[1].decision = "keep" /\ decisions[1].rotation = 0
    /\ decisions[2].decision = "skip" /\ decisions[2].rotation = 270
    /\ DOMAIN rotation_map = {}

\* C9: every rotation is one of 0, 90, 180, 270: it is 0 when the session
\* starts and only a rotate step changes it; four rotate steps in a row on
\* one item bring it back to the rotation it had before them.
C9_RotationCycle ==
    /\ [](/\ \A i \in DOMAIN decisions :
               /\ decisions[i].rotation \in {0, 90, 180, 270}
               /\ pc = "launch" => decisions[i].rotation = 0
          /\ streak \in 0..4
          /\ (streak = 4 /\ pc \in {"prompt", "finally"}) =>
                  decisions[current_index + 1].rotation = streakBase)
    /\ [][(\E i \in DOMAIN decisions :
               decisions'[i].rotation # decisions[i].rotation) => Rotate]_vars

\* four rotations in a row of a fresh item
C9_Witness ==
    /\ pc = "prompt"
    /\ streak = 4
    /\ streakBase = 0
    /\ choice = "Rotate 90"
    /\ decisions[current_index + 1].rotation = 0

\* C10: once the player was launched, when the function returns or an
\* exception leaves it the player has been terminated and waited for and
\* the socket file does not exist.
C10_PlayerCleanedUp ==
    (pc \in {"collect", "confirm", "returned", "propagated"} /\ mpv_process # "None") =>
        /\ mpv_process = "reaped"
        /\ ~socket_exists

\* an exception left the function after the player had made its socket
C10_Witness ==
    /\ pc = "propagated"
    /\ exc = "error"
    /\ mpv_process = "reaped"
    /\ ~socket_exists
    /\ Len(sent) = 1
    /\ sent[1].result = "raised"

\* =====================================================================
\* The encoder prober as a process-long service
\* =====================================================================
\* interactive_video_selection is not running
SelectionIdle ==
    /\ videos = <<>>
    /\ mpv_available = FALSE
    /\ socket_exists = FALSE
    /\ pc = "idle"
    /\ icloud_only = <<>>
    /\ decisions = <<>>
    /\ current_index = 0
    /\ should_quit = FALSE
    /\ choice = "unset"
    /\ mpv_process = "None"
    /\ sent = <<>>
    /\ exc = "none"
    /\ kept = <<>>
    /\ rotation_map = EmptyMap
    /\ asked = 0
    /\ streak = 0
    /\ streakBase = 0
    /\ include_pending = "unset"

ProbeRecord(entry, codec, r) ==
    [entry |-> entry, codec |-> codec, repeat |-> <<entry, codec>> \in produced,
     status |-> r.status, value |-> r.value, trials |-> r.trials]

ProducedAfter(entry, codec, r) ==
    IF r.status = "returned" THEN produced \cup {<<entry, codec>>} ELSE produced

\* a call of detect_best_encoder(codec), e.g. by compile_movie(path)
CallDetectBestEncoder ==
    /\ probe_calls < MaxProbeCalls
    /\ \E codec \in Codecs, outcomes \in [1..Len(HwEncoders) -> TrialOutcomes] :
          LET r == DetectBestEncoder(encoder_cache, codec, outcomes)
          IN  /\ encoder_cache' = r.cache
              /\ last_probe' = ProbeRecord("detect_best_encoder", codec, r)
              /\ produced' = ProducedAfter("detect_best_encoder", codec, r)
    /\ probe_calls' = probe_calls + 1
    /\ UNCHANGED <<vars, compileVars, mainVars, libVars>>

\* a call of _test_gpu_availability(), by prompt_quality_selection
CallTestGpuAvailability ==
    /\ probe_calls < MaxProbeCalls
    /\ \E outcomes \in [1..Len(HwEncoders) -> TrialOutcomes] :
          LET r == TestGpuAvailability(outcomes)
          IN  /\ last_probe' = ProbeRecord("_test_gpu_availability", "none", r)
              /\ produced' = ProducedAfter("_test_gpu_availability", "none", r)
    /\ probe_calls' = probe_calls + 1
    /\ UNCHANGED <<vars, encoder_cache, compileVars, mainVars, libVars>>

ProbeInit == SelectionIdle /\ ProberIdle /\ CompileIdle /\ MainIdle /\ LibIdle

ProbeNext == CallDetectBestEncoder \/ CallTestGpuAvailability

SpecProbe == ProbeInit /\ [][ProbeNext]_<<vars, movieVars>>

\* C13: once an entry point of the prober has produced a result, a repeated
\* call of it (detect_best_encoder for the same codec, or
\* _test_gpu_availability) runs no trial encode.
C13_ProbeCached ==
    last_probe.repeat => last_probe.trials = <<>>

\* C15: _test_encoder returns true exactly when the trial exits with status
\* zero and left a non-empty output file; for every other outcome it returns
\* false, and no exception of a trial reaches detect_best_encoder or
\* _test_gpu_availability.
C15_TrialNeverRaises ==
    /\ \A i \in DOMAIN last_probe.trials :
          /\ last_probe.trials[i].result \in {"True", "False"}
          /\ last_probe.trials[i].result = "True" <=>
                last_probe.trials[i].outcome = "ok"
    /\ last_probe.status # "raised"

\* C16: both entry points probe hevc_videotoolbox, then h264_videotoolbox,
\* and stop at the first that passes, which they select; when none passes
\* detect_best_encoder returns libx265 with its settings and the two
\* hardware encoders as the tested list, and _test_gpu_availability returns
\* (False, None, None), never a software encoder.
C16_ProbeOrder ==
    LET t  == last_probe.trials
        n  == Len(t)
        hw == <<"hevc_videotoolbox", "h264_videotoolbox">>
    IN  /\ n <= 2
        /\ \A i \in 1..n : t[i].encoder = hw[i]
        /\ \A i \in 1..n : i < n => t[i].result = "False"
        /\ (last_probe.status = "returned" /\ n > 0) =>
              IF last_probe.entry = "detect_best_encoder"
              THEN /\ last_probe.value[3] = SubSeq(hw, 1, n)
                   /\ IF t[n].result = "True"
                      THEN /\ last_probe.value[1] = hw[n]
                           /\ last_probe.value[2].quality_flag = "-q:v"
                      ELSE /\ n = 2
                           /\ last_probe.value[1] = "libx265"
                           /\ last_probe.value[2].quality_flag = "-crf"
                           /\ last_probe.value[2].pix_fmt = "yuv420p10le"
              ELSE IF t[n].result = "True"
                   THEN last_probe.value[1] /\ last_probe.value[2] = hw[n]
                   ELSE n = 2 /\ last_probe.value = <<FALSE, "None", "None">>
        /\ (last_probe.status = "returned"
              /\ last_probe.entry = "_test_gpu_availability") =>
              last_probe.value[2] # "libx265"
        /\ \A k \in DOMAIN encoder_cache :
              \A j \in DOMAIN encoder_cache[k][3] :
                  encoder_cache[k][3][j] # "libx265"

\* detect_best_encoder fell back to libx265 after both hardware probes failed
C16_Witness ==
    /\ last_probe.entry = "detect_best_encoder"
    /\ last_probe.status = "returned"
    /\ Len(last_probe.trials) = 2
    /\ last_probe.trials[1].outcome = "timeout"
    /\ last_probe.trials[2].outcome = "nonzero_exit"
    /\ last_probe.value[1] = "libx265"
    /\ last_probe.value[3] = <<"hevc_videotoolbox", "h264_videotoolbox">>

\* C11: player commands are fire-and-forget: a handler sends at most one
\* command (a loadfile when the cursor moved, a set_property for a rotate,
\* none for quit), never sends it again, and the delivery result is not
\* fatal: whether the command was delivered or not, no exception leaves the
\* loop and the session goes on to the next prompt.
C11_FireAndForget ==
    /\ Len(sent) <= 1
    /\ choice \in {"Quit", "None", "unset"} => sent = <<>>
    /\ \A c \in DOMAIN sent :
          /\ sent[c].command[1] =
                (IF choice = "Rotate 90" THEN "set_property" ELSE "loadfile")
          /\ sent[c].result \in {"True", "False"}
    /\ sent # <<>> => (pc = "prompt" /\ exc = "none")

\* C12: when the player binary is unavailable the function returns the
\* input videos unchanged, in order, with an empty rotation map; it launches
\* no player, sends no command and shows no prompt.
C12_NoPlayerFallback ==
    ~mpv_available =>
        /\ pc \in {"start", "returned", "idle"}
        /\ mpv_process = "None"
        /\ sent = <<>>
        /\ choice = "unset"
        /\ asked = 0 /\ include_pending = "unset"
        /\ decisions = <<>>
        /\ pc = "returned" =>
              /\ kept = videos
              /\ DOMAIN rotation_map = {}

\* returned without a player: a local and a cloud-only video, both given back
C12_Witness ==
    /\ ~mpv_available
    /\ pc = "returned"
    /\ Len(videos) = 2
    /\ videos[1].path # 0 /\ ~videos[1].ismissing
    /\ videos[2].ismissing
    /\ kept = videos

\* =====================================================================
\* compile_movie(playlist_path, encoding)
\* =====================================================================
\* the earlier detect_best_encoder() call that left PriorCache(kind)
PriorProbe(kind) ==
    LET r == DetectBestEncoder(EmptyCache, "hevc",
                 IF kind = "gpu" THEN <<"ok", "ok">>
                 ELSE <<"nonzero_exit", "nonzero_exit">>)
    IN  IF kind = "empty" THEN NoProbe
        ELSE [entry |-> "detect_best_encoder", codec |-> "hevc", repeat |-> FALSE,
              status |-> r.status, value |-> r.value, trials |-> r.trials]

CompileInit ==
    /\ SelectionIdle
    /\ \E kind \in PriorCacheKinds :
          /\ encoder_cache = PriorCache(kind)
          /\ produced = IF kind = "empty" THEN {}
                        ELSE {<<"detect_best_encoder", "hevc">>}
          /\ probe_calls = IF kind = "empty" THEN 0 ELSE 1
          /\ last_probe = PriorProbe(kind)
    /\ playlist \in Playlists
    /\ \E c \in EncodingChoices : encoding = EncodingSelection(c)
    /\ cpc = "called"
    /\ enc = NoEnc
    /\ filter_parts = <<>>
    /\ cmd = NoCmd
    /\ spawned = <<>>
    /\ process = NoProcess
    /\ cresult = "unset"
    /\ MainIdle
    /\ LibIdle

\* encoding is not None: the selection is used as given
UseSelection ==
    /\ cpc = "called"
    /\ encoding.encoder_type # "None"
    /\ enc' = [encoder |-> encoding.encoder_name,
               enc_settings |-> encoding.encoder_settings,
               quality_tier |-> encoding.quality_tier]
    /\ cpc' = "open"
    /\ UNCHANGED <<playlist, encoding, filter_parts, cmd, spawned, process, cresult>>
    /\ UNCHANGED <<vars, proberVars, mainVars, libVars>>

\* encoding is None: detect_best_encoder() runs before the playlist is read
AutoDetect ==
    /\ cpc = "called"
    /\ encoding.encoder_type = "None"
    /\ \E outcomes \in [1..Len(HwEncoders) -> TrialOutcomes] :
          LET r == DetectBestEncoder(encoder_cache, "hevc", outcomes)
          IN  /\ encoder_cache' = r.cache
              /\ last_probe' = ProbeRecord("detect_best_encoder", "hevc", r)
              /\ produced' = ProducedAfter("detect_best_encoder", "hevc", r)
              /\ spawned' = spawned \o TrialProcesses(r.trials)
              /\ IF r.status = "raised"
                 THEN /\ cresult' = "raised"
                      /\ cpc' = "returned"
                      /\ enc' = enc
                 ELSE /\ enc' = [encoder |-> r.value[1], enc_settings |-> r.value[2],
                                 quality_tier |-> "balanced"]
                      /\ cpc' = "open"
                      /\ cresult' = cresult
    /\ probe_calls' = probe_calls + 1
    /\ UNCHANGED <<playlist, encoding, filter_parts, cmd, process>>
    /\ UNCHANGED <<vars, mainVars, libVars>>

\* if not videos: return None
EmptyPlaylist ==
    /\ cpc = "open"
    /\ playlist = <<>>
    /\ cresult' = "None"
    /\ cpc' = "returned"
    /\ UNCHANGED <<playlist, encoding, enc, filter_parts, cmd, spawned, process>>
    /\ UNCHANGED <<vars, proberVars, mainVars, libVars>>

\* inputs, filter_parts, filter_complex and cmd are built
BuildCommand ==
    /\ cpc = "open"
    /\ playlist # <<>>
    /\ filter_parts' = FilterParts(playlist)
    /\ cmd' = BuildCmd(playlist, FilterParts(playlist), enc)
    /\ cpc' = "built"
    /\ UNCHANGED <<playlist, encoding, enc, spawned, process, cresult>>
    /\ UNCHANGED <<vars, proberVars, mainVars, libVars>>

\* subprocess.Popen(cmd) starts ffmpeg
PopenStarts ==
    /\ cpc = "built"
    /\ process' = [state |-> "running", returncode |-> "None"]
    /\ spawned' = Append(spawned, [program |-> cmd.program, purpose |-> "encode",
                                   codec |-> cmd.codec])
    /\ cpc' = "progress"
    /\ UNCHANGED <<playlist, encoding, enc, filter_parts, cmd, cresult>>
    /\ UNCHANGED <<vars, proberVars, mainVars, libVars>>

\* what subprocess.Popen can raise: no ffmpeg binary, or anything else
PopenErrors == {"FileNotFoundError", "Exception"}

PopenFails ==
    /\ cpc = "built"
    /\ \E e \in PopenErrors : process' = [state |-> e, returncode |-> "None"]
    /\ cresult' = "None"
    /\ cpc' = "returned"
    /\ UNCHANGED <<playlist, encoding, enc, filter_parts, cmd, spawned>>
    /\ UNCHANGED <<vars, proberVars, mainVars, libVars>>

\* an exception while the output of the running process is read
ProgressFails ==
    /\ cpc = "progress"
    /\ process' = [state |-> "abandoned", returncode |-> "None"]
    /\ cresult' = "None"
    /\ cpc' = "returned"
    /\ UNCHANGED <<playlist, encoding, enc, filter_parts, cmd, spawned>>
    /\ UNCHANGED <<vars, proberVars, mainVars, libVars>>

ReturnCodes == {0, 1}

\* a result that does not look at the exit status
ReturnOf_Always(returncode) == "output_path"

\* if process.returncode == 0: return output_path, else: return None
ReturnOf(returncode) == IF returncode = 0 THEN "output_path" ELSE "None"

\* process.wait() returns
ProcessExits ==
    /\ cpc = "progress"
    /\ \E code \in ReturnCodes :
          /\ process' = [state |-> "exited", returncode |-> code]
          /\ cresult' = ReturnOf(code)
    /\ cpc' = "returned"
    /\ UNCHANGED <<playlist, encoding, enc, filter_parts, cmd, spawned>>
    /\ UNCHANGED <<vars, proberVars, mainVars, libVars>>

CompileNext ==
    \/ UseSelection
    \/ AutoDetect
    \/ EmptyPlaylist
    \/ BuildCommand
    \/ PopenStarts
    \/ PopenFails
    \/ ProgressFails
    \/ ProcessExits

SpecCompile == CompileInit /\ [][CompileNext]_<<vars, movieVars>>

\* ------------------------------------------------ reading a filter graph
Built == cmd.program = "ffmpeg"

\* positions <<chain, filter>> of the filters called name
OpsNamed(graph, name) ==
    {p \in UNION {{<<j, k>> : k \in DOMAIN graph[j].ops} : j \in DOMAIN graph} :
        graph[p[1]].ops[p[2]].name = name}

HasOp(chain, name) == \E k \in DOMAIN chain.ops : chain.ops[k].name = name

\* the chains holding a filter called name, in graph order
ChainsOf(graph, name) == SelectSeq(graph, LAMBDA c : HasOp(c, name))

XfadeOffsets(graph) ==
    LET X == ChainsOf(graph, "xfade")
    IN  [i \in 1..Len(X) |->
            ParseOffset(X[i].ops[CHOOSE k \in DOMAIN X[i].ops :
                                    X[i].ops[k].name = "xfade"].args.offset)]

RECURSIVE SumDurations(_, _)
SumDurations(vs, n) ==
    IF n = 0 THEN 0 ELSE SumDurations(vs, n - 1) + vs[n].duration

T == TRANSITION_DURATION * MsPerSecond

\* C14: a compile_movie call on an empty playlist that returns, returns None
\* and has started no subprocess, neither the encoding nor a trial encode.
C14_EmptyPlaylistNoSubprocess ==
    (cpc = "returned" /\ playlist = <<>> /\ cresult # "raised") =>
        (cresult = "None" /\ spawned = <<>>)

\* C17: for every playlist of 3 videos the graph has exactly 2 xfade and 2
\* acrossfade filters and the second xfade offset is greater than the first.
C17_ThreeVideos ==
    (Built /\ Len(playlist) = 3) =>
        /\ Cardinality(OpsNamed(cmd.filter_complex, "xfade")) = 2
        /\ Cardinality(OpsNamed(cmd.filter_complex, "acrossfade")) = 2
        /\ XfadeOffsets(cmd.filter_complex)[2] > XfadeOffsets(cmd.filter_complex)[1]

\* C18: for N > 1 videos the offset written for transition i is
\* offset_0 = d_0 - T, offset_i = offset_(i-1) + d_i - T, which is
\* (d_0 + ... + d_i) - (i+1)*T, for i in 0..N-2; the duration of the last
\* video changes no offset.
C18_Offsets ==
    (Built /\ Len(playlist) > 1) =>
        LET offs == XfadeOffsets(cmd.filter_complex)
            N    == Len(playlist)
        IN  /\ Len(offs) = N - 1
            /\ offs[1] = playlist[1].duration - T
            /\ \A i \in 2..(N - 1) : offs[i] = offs[i - 1] + playlist[i].duration - T
            /\ \A i \in 1..(N - 1) : offs[i] = SumDurations(playlist, i) - i * T
            /\ \A c \in Clips :
                  XfadeOffsets(FilterComplex(FilterParts(
                      [playlist EXCEPT ![N] = c]))) = offs

\* three videos, the offsets 2.000 and 3.500 written
C18_Witness ==
    /\ Built
    /\ Len(playlist) = 3
    /\ playlist[1].duration = 3000 /\ playlist[2].duration = 2500
    /\ XfadeOffsets(cmd.filter_complex) = <<2000, 3500>>

\* C19: one video: no cross-fade, [v0] and [a0] go through null / anull to
\* [vout] / [aout]. N > 1 videos: N-1 xfade and N-1 acrossfade chains in
\* playlist order; transition i takes the output of transition i-1 (input 0
\* when i = 0) and input i+1; every intermediate output has its own label
\* vt_i / at_i and only the last transition writes [vout] / [aout].
C19_Chain ==
    Built =>
        LET g  == cmd.filter_complex
            N  == Len(playlist)
            X  == ChainsOf(g, "xfade")
            AX == ChainsOf(g, "acrossfade")
        IN  /\ Cardinality(OpsNamed(g, "xfade")) = N - 1
            /\ Cardinality(OpsNamed(g, "acrossfade")) = N - 1
            /\ Len(X) = N - 1 /\ Len(AX) = N - 1
            /\ N = 1 =>
                  /\ \E j \in DOMAIN g :
                        /\ g[j].ins = <<V(0)>> /\ g[j].outs = <<VOut>>
                        /\ Len(g[j].ops) = 1 /\ g[j].ops[1].name = "null"
                  /\ \E j \in DOMAIN g :
                        /\ g[j].ins = <<A(0)>> /\ g[j].outs = <<AOut>>
                        /\ Len(g[j].ops) = 1 /\ g[j].ops[1].name = "anull"
            /\ \A i \in 0..(N - 2) :
                  /\ X[i + 1].ins =
                        <<IF i = 0 THEN V(0) ELSE X[i].outs[1], V(i + 1)>>
                  /\ AX[i + 1].ins =
                        <<IF i = 0 THEN A(0) ELSE AX[i].outs[1], A(i + 1)>>
                  /\ X[i + 1].outs = <<IF i = N - 2 THEN VOut ELSE VT(i)>>
                  /\ AX[i + 1].outs = <<IF i = N - 2 THEN AOut ELSE AT(i)>>
            /\ \A i, j \in 1..(N - 1) :
                  i # j => (X[i].outs # X[j].outs /\ AX[i].outs # AX[j].outs)

\* three videos: two chained transitions, the first into [vt0] / [at0]
C19_Witness ==
    /\ Built
    /\ Len(playlist) = 3
    /\ ChainsOf(cmd.filter_complex, "xfade")[1].outs = <<VT(0)>>
    /\ ChainsOf(cmd.filter_complex, "xfade")[2].ins = <<VT(0), V(2)>>
    /\ ChainsOf(cmd.filter_complex, "acrossfade")[2].outs = <<AOut>>

\* C20: on a non-empty playlist compile_movie returns the output path exactly
\* when the encoding process was started and exited with status 0; a missing
\* binary, a non-zero exit or any other exception while it is invoked gives
\* None, and nothing is raised.
C20_ResultOfEncoding ==
    (cpc = "returned" /\ playlist # <<>>) =>
        /\ cresult = "output_path" <=>
              /\ process.state = "exited" /\ process.returncode = 0
              /\ \E k \in DOMAIN spawned : spawned[k].purpose = "encode"
        /\ process.state \in PopenErrors \cup {"abandoned"} => cresult = "None"
        /\ (process.state = "exited" /\ process.returncode # 0) => cresult = "None"

\* the encoding ran and exited with status 0
C20_Witness ==
    /\ cpc = "returned"
    /\ Len(playlist) = 2
    /\ process.state = "exited" /\ process.returncode = 0
    /\ cresult = "output_path"

\* ----------------------------------------------------------------------
\* C27: at every prompt of the loop the items below the cursor are decided
\* (keep or skip) and the item at the cursor and those above it are pending,
\* so kept_count + skipped_count = current_index; when the loop ends without
\* quit, after the last item was kept or skipped, no item is pending.
C27_DecidedBelowCursor ==
    /\ pc = "prompt" =>
          /\ \A i \in 1..Len(decisions) :
                IF i - 1 < current_index
                THEN decisions[i].decision \in {"keep", "skip"}
                ELSE decisions[i].decision = "pending"
          /\ kept_count + skipped_count = current_index
    /\ (pc \in {"finally", "collect", "confirm", "returned"} /\ decisions # <<>>
        /\ ~should_quit /\ exc = "none") =>
          pending_count = 0

\* a prompt on the second of two items, the first one decided
C27_Witness ==
    /\ pc = "prompt"
    /\ Len(decisions) = 2
    /\ current_index = 1
    /\ decisions[1].decision = "skip"
    /\ decisions[2].decision = "pending"

\* C28: for every returned video the returned rotation map gives the rotation
\* the video had at the end of the session (no key meaning 0), also for a
\* rotated video that was pending at quit and was included on confirmation.
C28_RotationKept ==
    pc = "returned" =>
        \A k \in 1..Len(kept) : \A j \in 1..Len(decisions) :
            decisions[j].video = kept[k] =>
                decisions[j].rotation =
                    (IF kept[k].uuid \in DOMAIN rotation_map
                     THEN rotation_map[kept[k].uuid] ELSE 0)

\* the returned list has only input videos, each at most once
ReturnedFromInput ==
    /\ \A k \in 1..Len(kept) : \E i \in 1..Len(videos) : videos[i] = kept[k]
    /\ \A k, l \in 1..Len(kept) : kept[k] = kept[l] => k = l

\* v is returned exactly when cloud-only, kept, or pending at quit and accepted
ReturnedExactly(v) ==
    (\E k \in 1..Len(kept) : kept[k] = v) <=>
        \/ IsCloudOnly(v)
        \/ \E j \in 1..Len(decisions) :
              /\ decisions[j].video = v
              /\ \/ decisions[j].decision = "keep"
                 \/ /\ decisions[j].decision = "pending"
                    /\ should_quit
                    /\ include_pending = "True"

\* C29 as stated, for every return of interactive_video_selection
C29_ReturnedAlways ==
    pc = "returned" =>
        /\ ReturnedFromInput
        /\ \A i \in 1..Len(videos) : ReturnedExactly(videos[i])

\* C29: when a selection session is possible (mpv is available) the returned
\* list has only input videos, none twice, and an input video is in it exactly
\* when it is cloud-only, or its final decision is keep, or it was pending at
\* quit and the user accepted including pending items; a skipped video is
\* never returned.
C29_Returned ==
    (pc = "returned" /\ mpv_available) =>
        /\ ReturnedFromInput
        /\ \A i \in 1..Len(videos) : ReturnedExactly(videos[i])
        /\ \A j \in 1..Len(decisions) :
              decisions[j].decision = "skip" =>
                  \A k \in 1..Len(kept) : kept[k] # decisions[j].video

\* one video skipped and left out, one pending at quit and included
C29_Witness ==
    /\ pc = "returned"
    /\ mpv_available
    /\ Len(decisions) = 2
    /\ decisions[1].decision = "skip"
    /\ decisions[2].decision = "pending"
    /\ include_pending = "True"
    /\ kept = <<decisions[2].video>>

\* ----------------------------------------------------------------------
\* positions <<chain, slot>> where label L is written / read in graph g
ProducedAt(g, L) ==
    {p \in UNION {{<<j, k>> : k \in DOMAIN g[j].outs} : j \in DOMAIN g} :
        g[p[1]].outs[p[2]] = L}

ConsumedAt(g, L) ==
    {p \in UNION {{<<j, k>> : k \in DOMAIN g[j].ins} : j \in DOMAIN g} :
        g[p[1]].ins[p[2]] = L}

OutLabels(g) == UNION {{g[j].outs[k] : k \in DOMAIN g[j].outs} : j \in DOMAIN g}

InLabels(g) == UNION {{g[j].ins[k] : k \in DOMAIN g[j].ins} : j \in DOMAIN g}

InputStreams(n) == {InV(i) : i \in 0..(n - 1)} \cup {InA(i) : i \in 0..(n - 1)}

OldOutputCounts == {0, 1, 2}

\* what query_videos can return
LibraryLists == {vs \in VideoLists : Len(vs) <= MaxLibrary}

MainInit ==
    /\ SelectionIdle /\ ProberIdle /\ CompileIdle /\ LibIdle
    /\ mode \in {"default", "recompile"}
    /\ mpc = "start"
    /\ main_videos = <<>>
    /\ log = <<>>
    /\ cancel_step = "none"
    /\ exit_code = "running"
    /\ exported = {}
    /\ playlist_file \in (IF mode = "recompile" THEN {"absent", "original"}
                          ELSE {"absent"})
    /\ old_outputs \in (IF mode = "recompile" THEN OldOutputCounts ELSE {0})
    /\ compile_calls = 0

\* the sub-lists of a list, order kept
RECURSIVE SubLists(_)
SubLists(vs) ==
    IF vs = <<>> THEN {<<>>}
    ELSE LET rest == SubLists(Tail(vs))
         IN  rest \cup {<<Head(vs)>> \o r : r \in rest}

Size(vs) == IF Len(vs) = 0 THEN "empty" ELSE "some"

\* one step of main: what it did, whether the user cancelled in it, and where
\* main goes next; "exited" is a return from main or sys.exit(0)
Step(step, result, cancelled, next) ==
    /\ log' = Append(log, [step |-> step, result |-> result])
    /\ cancel_step' = IF cancelled THEN step ELSE cancel_step
    /\ mpc' = next
    /\ exit_code' = IF next = "exited" THEN "0" ELSE exit_code

OtherUnchanged == UNCHANGED <<vars, proberVars, compileVars, libVars>>

\* --recompile with a path that does not exist: sys.exit(1)
RecompileMissing ==
    /\ mpc = "start" /\ mode = "recompile" /\ playlist_file = "absent"
    /\ log' = Append(log, [step |-> "recompile_check", result |-> "missing"])
    /\ mpc' = "exited"
    /\ exit_code' = "1"
    /\ UNCHANGED <<mode, main_videos, cancel_step, exported, playlist_file,
                   old_outputs, compile_calls>>
    /\ OtherUnchanged

\* --recompile going to the quality prompt with the old outputs left in place
RecompileDelete_KeepsOutputs ==
    /\ mpc = "start" /\ mode = "recompile" /\ playlist_file # "absent"
    /\ old_outputs' = old_outputs
    /\ Step("delete_outputs", IF old_outputs > 0 THEN "removed" ELSE "nothing",
            FALSE, "quality")
    /\ UNCHANGED <<mode, main_videos, exported, playlist_file, compile_calls>>
    /\ OtherUnchanged

\* --recompile: every *.mp4 of the playlist's directory is unlinked
RecompileDelete ==
    /\ mpc = "start" /\ mode = "recompile" /\ playlist_file # "absent"
    /\ old_outputs' = 0
    /\ Step("delete_outputs", IF old_outputs > 0 THEN "removed" ELSE "nothing",
            FALSE, "quality")
    /\ UNCHANGED <<mode, main_videos, exported, playlist_file, compile_calls>>
    /\ OtherUnchanged

\* prompt_date_range: sys.exit(0) when either date is cancelled
PromptDateRange ==
    /\ mpc = "start" /\ mode = "default"
    /\ \E a \in {"given", "None"} :
          Step("date_range", a, a = "None", IF a = "None" THEN "exited" ELSE "query")
    /\ UNCHANGED <<mode, main_videos, exported, playlist_file, old_outputs,
                   compile_calls>>
    /\ OtherUnchanged

\* query_videos, and the return when nothing was found
QueryVideos ==
    /\ mpc = "query"
    /\ main_videos' \in LibraryLists
    /\ Step("query", Size(main_videos'), FALSE,
            IF main_videos' = <<>> THEN "exited" ELSE "people")
    /\ UNCHANGED <<mode, exported, playlist_file, old_outputs, compile_calls>>
    /\ OtherUnchanged

\* prompt_people_selection and filter_by_people
PeopleFilter ==
    /\ mpc = "people"
    /\ \E a \in {"None", "all", "some"} :
          /\ main_videos' \in (IF a = "some" THEN SubLists(main_videos)
                               ELSE {main_videos})
          /\ Step("people", IF a = "None" THEN a ELSE Size(main_videos'), a = "None",
                  IF a = "None" \/ main_videos' = <<>> THEN "exited" ELSE "duration")
    /\ UNCHANGED <<mode, exported, playlist_file, old_outputs, compile_calls>>
    /\ OtherUnchanged

\* prompt_duration_filter and filter_by_duration
DurationFilter ==
    /\ mpc = "duration"
    /\ \E a \in {"None", "no_filter", "range"} :
          /\ main_videos' \in (IF a = "range" THEN SubLists(main_videos)
                               ELSE {main_videos})
          /\ Step("duration", IF a = "None" THEN a ELSE Size(main_videos'), a = "None",
                  IF a = "None" \/ main_videos' = <<>> THEN "exited"
                  ELSE "selection_confirm")
    /\ UNCHANGED <<mode, exported, playlist_file, old_outputs, compile_calls>>
    /\ OtherUnchanged

\* "Preview and select videos individually?" answered no or cancelled
SelectionDeclined ==
    /\ mpc = "selection_confirm"
    /\ \E a \in {"False", "None"} :
          Step("selection_confirm", a, a = "None",
               IF a = "None" THEN "exited" ELSE "copy")
    /\ UNCHANGED <<mode, main_videos, exported, playlist_file, old_outputs,
                   compile_calls>>
    /\ OtherUnchanged

\* answered yes: interactive_video_selection(videos) is called
SelectionStarts ==
    /\ mpc = "selection_confirm"
    /\ Step("selection_confirm", "True", FALSE, "selection")
    /\ videos' = main_videos
    /\ mpv_available' \in BOOLEAN
    /\ socket_exists' \in BOOLEAN
    /\ pc' = "start"
    /\ UNCHANGED <<icloud_only, decisions, current_index, should_quit, choice,
                   mpv_process, sent, exc, kept, rotation_map, asked, streak,
                   streakBase, include_pending>>
    /\ UNCHANGED <<mode, main_videos, exported, playlist_file, old_outputs,
                   compile_calls>>
    /\ UNCHANGED <<proberVars, compileVars, libVars>>

\* the locals of interactive_video_selection are gone once it has returned
SelectionOver ==
    /\ videos' = <<>>
    /\ mpv_available' = FALSE
    /\ socket_exists' = FALSE
    /\ pc' = "idle"
    /\ icloud_only' = <<>>
    /\ decisions' = <<>>
    /\ current_index' = 0
    /\ should_quit' = FALSE
    /\ choice' = "unset"
    /\ mpv_process' = "None"
    /\ sent' = <<>>
    /\ exc' = "none"
    /\ kept' = <<>>
    /\ rotation_map' = EmptyMap
    /\ asked' = 0
    /\ streak' = 0
    /\ streakBase' = 0
    /\ include_pending' = "unset"

\* a prompt of the session was cancelled, or it was interrupted
SessionCancelled ==
    choice = "None" \/ include_pending = "None" \/ exc = "KeyboardInterrupt"

\* videos, rotation_map = interactive_video_selection(videos)
SelectionReturns ==
    /\ mpc = "selection" /\ pc = "returned"
    /\ main_videos' = kept
    /\ Step("selection", Size(kept), SessionCancelled,
            IF kept = <<>> THEN "exited" ELSE "copy")
    /\ SelectionOver
    /\ UNCHANGED <<mode, exported, playlist_file, old_outputs, compile_calls>>
    /\ UNCHANGED <<proberVars, compileVars, libVars>>

\* an exception leaves interactive_video_selection and main: exit status 1
SelectionPropagates ==
    /\ mpc = "selection" /\ pc = "propagated"
    /\ log' = Append(log, [step |-> "selection", result |-> "raised"])
    /\ mpc' = "exited"
    /\ exit_code' = "1"
    /\ SelectionOver
    /\ UNCHANGED <<mode, main_videos, cancel_step, exported, playlist_file,
                   old_outputs, compile_calls>>
    /\ UNCHANGED <<proberVars, compileVars, libVars>>

\* the export started whatever the answer to "Proceed to copy videos?"
CopyConfirm_Ignored ==
    /\ mpc = "copy"
    /\ \E a \in {"True", "False", "None"} :
          Step("copy_confirm", a, a = "None", "export")
    /\ UNCHANGED <<mode, main_videos, exported, playlist_file, old_outputs,
                   compile_calls>>
    /\ OtherUnchanged

\* "Proceed to copy videos?"
CopyConfirm ==
    /\ mpc = "copy"
    /\ \E a \in {"True", "False", "None"} :
          Step("copy_confirm", a, a = "None", IF a = "True" THEN "export" ELSE "exited")
    /\ UNCHANGED <<mode, main_videos, exported, playlist_file, old_outputs,
                   compile_calls>>
    /\ OtherUnchanged

\* exported = export_videos(videos): any of the videos may fail
ExportVideos ==
    /\ mpc = "export"
    /\ exported' \in SUBSET {main_videos[i].uuid : i \in 1..Len(main_videos)}
    /\ Step("export", IF exported' = {} THEN "empty" ELSE "some", FALSE,
            IF exported' = {} THEN "exited" ELSE "project_name")
    /\ UNCHANGED <<mode, main_videos, playlist_file, old_outputs, compile_calls>>
    /\ OtherUnchanged

\* "Project name:"
ProjectName ==
    /\ mpc = "project_name"
    /\ \E a \in {"name", "None"} :
          Step("project_name", a, a = "None",
               IF a = "None" THEN "exited" ELSE "create_playlist")
    /\ UNCHANGED <<mode, main_videos, exported, playlist_file, old_outputs,
                   compile_calls>>
    /\ OtherUnchanged

\* playlist_path = create_playlist(...)
CreatePlaylist ==
    /\ mpc = "create_playlist"
    /\ playlist_file' = "written"
    /\ Step("create_playlist", "written", FALSE, "generate")
    /\ UNCHANGED <<mode, main_videos, exported, old_outputs, compile_calls>>
    /\ OtherUnchanged

\* "Generate final movie now?"
GenerateConfirm ==
    /\ mpc = "generate"
    /\ \E a \in {"True", "False", "None"} :
          Step("generate_confirm", a, a = "None",
               IF a = "True" THEN "quality" ELSE "exited")
    /\ UNCHANGED <<mode, main_videos, exported, playlist_file, old_outputs,
                   compile_calls>>
    /\ OtherUnchanged

\* encoding = prompt_quality_selection(): sys.exit(0) when cancelled
QualityPrompt ==
    /\ mpc = "quality"
    /\ \E a \in {"selection", "None"} :
          Step("quality", a, a = "None", IF a = "None" THEN "exited" ELSE "compile")
    /\ UNCHANGED <<mode, main_videos, exported, playlist_file, old_outputs,
                   compile_calls>>
    /\ OtherUnchanged

\* compile_movie(playlist_path, encoding), the last step of both modes
CompileMovie ==
    /\ mpc = "compile"
    /\ compile_calls' = compile_calls + 1
    /\ old_outputs' \in {old_outputs, old_outputs + 1}
    /\ Step("compile", IF old_outputs' = old_outputs THEN "None" ELSE "path",
            FALSE, "exited")
    /\ UNCHANGED <<mode, main_videos, exported, playlist_file>>
    /\ OtherUnchanged

\* KeyboardInterrupt while main itself runs: caught at the entry point,
\* sys.exit(0)
MainInterrupt ==
    /\ mpc \notin {"idle", "exited"}
    /\ pc = "idle"
    /\ Step("interrupt", "KeyboardInterrupt", TRUE, "exited")
    /\ UNCHANGED <<mode, main_videos, exported, playlist_file, old_outputs,
                   compile_calls>>
    /\ OtherUnchanged

MainNext ==
    \/ RecompileMissing
    \/ RecompileDelete
    \/ PromptDateRange
    \/ QueryVideos
    \/ PeopleFilter
    \/ DurationFilter
    \/ SelectionDeclined
    \/ SelectionStarts
    \/ Next
    \/ SelectionReturns
    \/ SelectionPropagates
    \/ CopyConfirm
    \/ ExportVideos
    \/ ProjectName
    \/ CreatePlaylist
    \/ GenerateConfirm
    \/ QualityPrompt
    \/ CompileMovie
    \/ MainInterrupt

SpecMain == MainInit /\ [][MainNext]_<<vars, movieVars>>

\* ------------------------------------------------ reading the log of main
Did(step, result) == \E i \in 1..Len(log) : log[i] = [step |-> step, result |-> result]

StepsDone == {log[i].step : i \in 1..Len(log)}

\* C21: once the user has cancelled a prompt (date range, people, duration,
\* the selection confirm, a decision or the include-unreviewed prompt of the
\* session, copy confirm, project name, generate confirm, quality) or has
\* interrupted, the run is over with exit code 0 and the cancelled step is the
\* last one of the workflow that was started.
C21_CancelEndsRun ==
    cancel_step # "none" =>
        /\ mpc = "exited"
        /\ exit_code = "0"
        /\ log[Len(log)].step = cancel_step

StepOrder ==
    <<"date_range", "query", "people", "duration", "selection_confirm",
      "selection", "copy_confirm", "export", "project_name", "create_playlist",
      "generate_confirm", "quality", "compile">>

\* the order when the interactive selection is declined
StepOrderDeclined == SelectSeq(StepOrder, LAMBDA x : x # "selection")

\* C23: in the default flow the steps are done only in the order date range,
\* query, people filter, duration filter, optional selection, copy
\* confirmation, export, project name, playlist creation, generate
\* confirmation, quality prompt, compilation; no export without a confirmed
\* copy, no playlist without an exported video and a project name, no
\* compilation without the written playlist and a confirmed generation; the
\* flow returns at the first step that leaves no video.
C23_DefaultFlow ==
    mode = "default" =>
        LET order == IF Did("selection_confirm", "False")
                     THEN StepOrderDeclined ELSE StepOrder
        IN  /\ \A i \in 1..Len(log) :
                  \/ log[i].step = "interrupt" /\ i = Len(log)
                  \/ i <= Len(order) /\ log[i].step = order[i]
            /\ "export" \in StepsDone => Did("copy_confirm", "True")
            /\ "create_playlist" \in StepsDone =>
                  (Did("export", "some") /\ Did("project_name", "name") /\ exported # {})
            /\ "compile" \in StepsDone =>
                  /\ Did("create_playlist", "written")
                  /\ Did("generate_confirm", "True")
                  /\ playlist_file = "written"
                  /\ compile_calls = 1
            /\ "compile" \notin StepsDone => compile_calls = 0
            /\ \A i \in 1..Len(log) :
                  log[i].result = "empty" => (i = Len(log) /\ mpc = "exited")

\* a whole run with the selection session, up to a compiled movie
C23_Witness ==
    /\ mode = "default"
    /\ mpc = "exited"
    /\ Len(log) = Len(StepOrder)
    /\ Did("selection", "some")
    /\ Did("compile", "path")

\* =====================================================================
\* filter_by_people, create_playlist and export_videos called directly
\* =====================================================================
\* person names as the Photos library gives them; a name starting with
\* _UNKNOWN stands for a face without a name
Names == {"Alice", "Bob", "_UNKNOWN_"}

IsUnknown(name) == name = "_UNKNOWN_"

\* videos as these functions read them: uuid, date, persons
LibVideoLists(personSets) ==
    UNION { { [i \in 1..n |-> [uuid |-> i, date |-> f[i][1], persons |-> f[i][2]]] :
                f \in [1..n -> Dates \X personSets] } :
            n \in 0..MaxVideos }

\* selected_people: None, or a list of names (its order is never read)
Selections == {[is_none |-> TRUE, names |-> {}]} \cup
              {[is_none |-> FALSE, names |-> S] : S \in SUBSET Names}

RECURSIVE filter_by_people(_, _)
filter_by_people(vs, selected_people) ==
    IF selected_people.is_none THEN vs
    ELSE IF vs = <<>> THEN <<>>
    ELSE (IF \E person \in selected_people.names : person \in Head(vs).persons
          THEN <<Head(vs)>> ELSE <<>>)
         \o filter_by_people(Tail(vs), selected_people)

CallFilterByPeople ==
    /\ lib_call = NoCall
    /\ \E vs \in LibVideoLists(SUBSET Names), sel \in Selections :
          /\ lib_call' = [fn |-> "filter_by_people", videos |-> vs,
                          selected_people |-> sel]
          /\ lib_ret' = [value |-> filter_by_people(vs, sel)]
    /\ UNCHANGED <<vars, proberVars, compileVars, mainVars>>

\* rotation_map: None, {} or a dict uuid -> rotation; exported: the uuids
\* that have a path
RotationMaps ==
    {[is_none |-> TRUE, keys |-> {}, rot |-> 90]} \cup
    {[is_none |-> FALSE, keys |-> K, rot |-> r] :
        K \in SUBSET (1..MaxVideos), r \in {90, 270}}

\* rotation_map = rotation_map or {}; rotation_map.get(uuid, 0)
RotationFor(rmap, uuid) ==
    IF ~rmap.is_none /\ uuid \in rmap.keys
    THEN rmap.rot ELSE 0

\* the input list taken in the order given
sorted_videos_AsGiven(vs) == vs

\* sorted(videos, key=lambda x: x.date)
sorted_videos(vs) == SortedByDate(vs)

RECURSIVE PlaylistEntries(_, _, _)
PlaylistEntries(vs, exp, rmap) ==
    IF vs = <<>> THEN <<>>
    ELSE (IF Head(vs).uuid \in exp
          THEN <<[uuid |-> Head(vs).uuid, date |-> Head(vs).date,
                  path |-> Head(vs).uuid,
                  rotation |-> RotationFor(rmap, Head(vs).uuid)]>>
          ELSE <<>>)
         \o PlaylistEntries(Tail(vs), exp, rmap)

\* playlist["videos"] as create_playlist writes it
create_playlist(vs, exp, rmap) ==
    PlaylistEntries(sorted_videos(vs), exp, rmap)

CallCreatePlaylist ==
    /\ lib_call = NoCall
    /\ \E vs \in LibVideoLists({{}}), exp \in SUBSET (1..MaxVideos),
          rm \in RotationMaps :
          /\ lib_call' = [fn |-> "create_playlist", videos |-> vs,
                          exported |-> exp, rotation_map |-> rm]
          /\ lib_ret' = [value |-> create_playlist(vs, exp, rm)]
    /\ UNCHANGED <<vars, proberVars, compileVars, mainVars>>

\* how v.export and the rename end for one video: the file is at dest_path,
\* export returned nothing, or an Exception was raised
ExportOutcomes == {"file", "no_result", "raised"}

\* a loop that gives up at the first exception
ContinueAfter_StopOnRaise(outcome) == outcome # "raised"

\* except Exception: the error is printed and the loop goes on
ContinueAfter(outcome) == TRUE

\* the loop of export_videos: acc holds the map built so far (its keys)
\* and the videos export was called for
RECURSIVE ExportLoop(_, _, _, _)
ExportLoop(vs, cached, outcome, acc) ==
    IF vs = <<>> THEN acc
    ELSE LET u == Head(vs).uuid
         IN  IF cached[u]
             THEN ExportLoop(Tail(vs), cached, outcome,
                             [acc EXCEPT !.exported = @ \cup {u}])
             ELSE LET after == [exported |-> IF outcome[u] = "file"
                                             THEN acc.exported \cup {u}
                                             ELSE acc.exported,
                                called |-> Append(acc.called, u)]
                  IN  IF ContinueAfter(outcome[u])
                      THEN ExportLoop(Tail(vs), cached, outcome, after)
                      ELSE after

export_videos(vs, cached, outcome) ==
    ExportLoop(sorted_videos(vs), cached, outcome, [exported |-> {}, called |-> <<>>])

CallExportVideos ==
    /\ lib_call = NoCall
    /\ \E vs \in LibVideoLists({{}}) :
       \E cached \in [1..Len(vs) -> BOOLEAN], outcome \in [1..Len(vs) -> ExportOutcomes] :
          /\ lib_call' = [fn |-> "export_videos", videos |-> vs,
                          cached |-> cached, outcome |-> outcome]
          /\ lib_ret' = export_videos(vs, cached, outcome)
    /\ UNCHANGED <<vars, proberVars, compileVars, mainVars>>

LibInit == SelectionIdle /\ ProberIdle /\ CompileIdle /\ MainIdle /\ LibIdle

LibNext == CallFilterByPeople \/ CallCreatePlaylist \/ CallExportVideos

SpecLib == LibInit /\ [][LibNext]_<<vars, movieVars>>

\* C24: the entries written by create_playlist are in ascending date order
\* whatever the input order, are exactly the input videos whose uuid is in
\* the exported map, each once, and carry the rotation of the rotation map,
\* or 0 when the uuid is not in it or the map is empty or None.
C24_PlaylistEntries ==
    lib_call.fn = "create_playlist" =>
        LET out == lib_ret.value
            vs  == lib_call.videos
            rm  == lib_call.rotation_map
        IN  /\ \A i, j \in 1..Len(out) : i < j => out[i].date <= out[j].date
            /\ \A i, j \in 1..Len(out) : out[i].uuid = out[j].uuid => i = j
            /\ {out[i].uuid : i \in 1..Len(out)} =
                  {vs[i].uuid : i \in 1..Len(vs)} \cap lib_call.exported
            /\ \A i \in 1..Len(out) :
                  /\ \E k \in 1..Len(vs) :
                        vs[k].uuid = out[i].uuid /\ vs[k].date = out[i].date
                  /\ out[i].rotation =
                        (IF rm.is_none \/ out[i].uuid \notin rm.keys
                         THEN 0 ELSE rm.rot)

\* two videos given latest first, both exported, one of them rotated
C24_Witness ==
    /\ lib_call.fn = "create_playlist"
    /\ Len(lib_call.videos) = 2
    /\ lib_call.videos[1].date > lib_call.videos[2].date
    /\ Len(lib_ret.value) = 2
    /\ lib_ret.value[1].uuid = 2
    /\ lib_ret.value[1].rotation = 0
    /\ lib_ret.value[2].rotation = 270

\* C25: in export_videos a failing video (no result, or an exception) is only
\* left out of the returned map: export is called once for every video that
\* has no cache file, never for a cached one, and a video is in the map
\* exactly when its cache file existed or its export produced the file.
C25_ExportIsolation ==
    lib_call.fn = "export_videos" =>
        LET vs == lib_call.videos
        IN  /\ \A i \in 1..Len(vs) :
                  /\ vs[i].uuid \in lib_ret.exported <=>
                        (lib_call.cached[i] \/ lib_call.outcome[i] = "file")
                  /\ Cardinality({k \in 1..Len(lib_ret.called) :
                                     lib_ret.called[k] = vs[i].uuid}) =
                        (IF lib_call.cached[i] THEN 0 ELSE 1)
            /\ lib_ret.exported \subseteq {vs[i].uuid : i \in 1..Len(vs)}

\* the first video by date raises, the second is still exported
C25_Witness ==
    /\ lib_call.fn = "export_videos"
    /\ Len(lib_call.videos) = 2
    /\ lib_call.videos[1].date < lib_call.videos[2].date
    /\ lib_call.cached = <<FALSE, FALSE>>
    /\ lib_call.outcome = <<"raised", "file">>
    /\ lib_ret.exported = {2}
    /\ lib_ret.called = <<1, 2>>

\* C26: filter_by_people returns the input for a None selection, nothing for
\* an empty selection, and otherwise exactly the videos, in their order and
\* once each, that have a selected person who is not an _UNKNOWN name.
C26_FilterByPeople ==
    lib_call.fn = "filter_by_people" =>
        LET vs  == lib_call.videos
            sel == lib_call.selected_people
            Matches(v) == \E person \in sel.names :
                             person \in v.persons /\ ~IsUnknown(person)
        IN  IF sel.is_none THEN lib_ret.value = vs
            ELSE IF sel.names = {} THEN lib_ret.value = <<>>
            ELSE lib_ret.value = SelectSeq(vs, Matches)

====
